---- MODULE Spec2Model ----
\* Shape-level and channel-level model of asr/densenet/network.py:
\* the module tree built by DenseNet.__init__, its initialization pass,
\* and the forward pass through nn.Sequential.
EXTENDS Integers, Sequences, FiniteSets, TLC

\* ---------------------------------------------------------------- bounds
MaxBatch == 2
MaxLabels == 2
MaxBlocks == 2
MaxLayers == 1
MaxBlockLayers == 3
MaxC0 == 3
MaxGrowth == 2

\* ------------------------------------------------------ program constants
\* defaults of DenseNet.__init__
growth_rate_default == 4
num_init_features_default == 64
bn_size_default == 4
block_config_default == <<6, 12, 24, 48, 16>>
\* View(dim=(-1, 2, 129, 21)) and View(dim=(-1, 195 * 4))
view_i_dim == <<-1, 2, 129, 21>>
view_f_dim == <<-1, 195 * 4>>
class_f_in == 195 * 4

\* ----------------------------------------------------------- module tree
\* A module is a record of its class (kind), the name it is registered under
\* and its constructor arguments; a container holds its children in sub, in
\* registration order (nn.Module.add_module).
View(name, dim) == [kind |-> "View", name |-> name, dim |-> dim]

Swish(name) == [kind |-> "Swish", name |-> name]

\* nn.Conv2d(cin, cout, kernel_size=k, stride=1, padding=pad, bias=False)
Conv2d(name, cin, cout, k, pad) ==
    [kind |-> "Conv2d", name |-> name, cin |-> cin, cout |-> cout,
     k |-> k, sh |-> 1, sw |-> 1, p |-> pad]

BatchNorm2d(name, c) == [kind |-> "BatchNorm2d", name |-> name, cin |-> c]

\* nn.MaxPool2d(kernel_size=k, stride=(sh, sw), padding=pad)
MaxPool2d(name, k, sh, sw, pad) ==
    [kind |-> "MaxPool2d", name |-> name, k |-> k, sh |-> sh, sw |-> sw, p |-> pad]

\* nn.AvgPool2d(kernel_size=k, stride=s, padding=pad)
AvgPool2d(name, k, s, pad) ==
    [kind |-> "AvgPool2d", name |-> name, k |-> k, sh |-> s, sw |-> s, p |-> pad]

Linear(name, cin, cout) == [kind |-> "Linear", name |-> name, cin |-> cin, cout |-> cout]

\* number in a generated name such as denseblock3 (0 for a fixed name)
Idx(m) == IF "idx" \in DOMAIN m THEN m.idx ELSE 0

\* children of a module (none for a leaf)
Children(m) == IF "sub" \in DOMAIN m THEN m.sub ELSE <<>>

\* _DenseLayer.__init__
_DenseLayer(idx, num_input_features, growth_rate, bn_size, drop_rate) ==
    [kind |-> "_DenseLayer", name |-> "denselayer", idx |-> idx,
     cin |-> num_input_features,
     drop |-> drop_rate > 0,
     sub |-> << BatchNorm2d("norm.1", num_input_features),
                Swish("swish.1"),
                Conv2d("conv.1", num_input_features, bn_size * growth_rate, 1, 0),
                BatchNorm2d("norm.2", bn_size * growth_rate),
                Swish("swish.2"),
                Conv2d("conv.2", bn_size * growth_rate, growth_rate, 3, 1) >>]

\* a slip: the growth rate is left out of the layer's declared input
DenseBlockLayerInputNoGrowth(num_input_features, i, growth_rate) ==
    num_input_features + i

\* the argument of _DenseLayer for layer i (0-based) of a block
DenseBlockLayerInput(num_input_features, i, growth_rate) ==
    num_input_features + i * growth_rate

\* _DenseBlock.__init__
_DenseBlock(idx, num_layers, num_input_features, bn_size, growth_rate, drop_rate) ==
    [kind |-> "_DenseBlock", name |-> "denseblock", idx |-> idx,
     cin |-> num_input_features,
     sub |-> [k \in 1..num_layers |->
                 _DenseLayer(k,
                     DenseBlockLayerInput(num_input_features, k - 1, growth_rate),
                     growth_rate, bn_size, drop_rate)]]

\* _Transition.__init__
_Transition(idx, num_input_features, num_output_features) ==
    [kind |-> "_Transition", name |-> "transition", idx |-> idx,
     cin |-> num_input_features,
     cout |-> num_output_features,
     sub |-> << BatchNorm2d("norm", num_input_features),
                Swish("swish"),
                Conv2d("conv", num_input_features, num_output_features, 1, 0),
                AvgPool2d("pool", 3, 2, 1) >>]

\* ------------------------------------------------------------ tensor shapes
\* A tensor is modelled by its shape, a tuple of positive integers; the empty
\* tuple stands for the RuntimeError the framework raises on a shape mismatch.
ERR == <<>>

RECURSIVE Prod(_)
Prod(s) == IF s = <<>> THEN 1 ELSE Head(s) * Prod(Tail(s))

\* product of the entries of dim other than the wildcard -1
KnownSize(dim) == Prod([k \in 1..Len(dim) |-> IF dim[k] = -1 THEN 1 ELSE dim[k]])

\* a slip: the reshape drops the elements that do not fill a row instead of raising
ViewForwardTruncating(dim, shp) ==
    [k \in 1..Len(dim) |-> IF dim[k] = -1 THEN Prod(shp) \div KnownSize(dim) ELSE dim[k]]

\* a slip: the batch dimension is kept (x.view(x.size(0), ...)) instead of inferred
ViewForwardKeepBatch(dim, shp) ==
    IF Prod(shp) = shp[1] * KnownSize(dim)
    THEN [k \in 1..Len(dim) |-> IF dim[k] = -1 THEN shp[1] ELSE dim[k]]
    ELSE ERR

\* View.forward: x.view(*self.dim)
ViewForward(dim, shp) ==
    LET total == Prod(shp)
        known == KnownSize(dim)
        wild  == {k \in 1..Len(dim) : dim[k] = -1}
    IN  IF wild = {}
        THEN IF known = total THEN dim ELSE ERR
        ELSE IF Cardinality(wild) > 1 \/ known = 0 \/ total % known # 0
             THEN ERR
             ELSE [k \in 1..Len(dim) |-> IF dim[k] = -1 THEN total \div known ELSE dim[k]]

\* a slip: the window count is rounded up (ceil_mode) instead of down
WindowOutCeil(n, k, s, p) ==
    IF n + 2 * p < k THEN 0 ELSE ((n + 2 * p - k + s - 1) \div s) + 1

\* output length of a convolution or pooling window along one dimension
WindowOut(n, k, s, p) ==
    IF n + 2 * p < k THEN 0 ELSE ((n + 2 * p - k) \div s) + 1

\* spatial part of Conv2d / MaxPool2d / AvgPool2d
WindowForward(m, shp, cout) ==
    LET h == WindowOut(shp[3], m.k, m.sh, m.p)
        w == WindowOut(shp[4], m.k, m.sw, m.p)
    IN  IF h < 1 \/ w < 1 THEN ERR ELSE <<shp[1], cout, h, w>>

\* torch.cat([x, new_features], 1) on shapes
CatShape(x, new) ==
    IF Len(x) # Len(new) \/ \E k \in 1..Len(x) : k # 2 /\ x[k] # new[k]
    THEN ERR
    ELSE [x EXCEPT ![2] = x[2] + new[2]]

RECURSIVE Apply(_, _)
RECURSIVE SequentialForward(_, _)

\* nn.Sequential.forward: each child is applied to the previous child's output
SequentialForward(sub, shp) ==
    IF sub = <<>> \/ shp = ERR THEN shp
    ELSE SequentialForward(Tail(sub), Apply(Head(sub), shp))

\* _DenseLayer.forward (dropout keeps the shape)
DenseLayerForward(m, shp) ==
    LET new_features == SequentialForward(m.sub, shp)
    IN  IF new_features = ERR THEN ERR ELSE CatShape(shp, new_features)

\* module(x) for every module kind of the tree
Apply(m, shp) ==
    IF shp = ERR THEN ERR
    ELSE CASE m.kind = "View" -> ViewForward(m.dim, shp)
           [] m.kind = "Swish" -> shp
           [] m.kind = "Conv2d" ->
                IF Len(shp) # 4 \/ shp[2] # m.cin THEN ERR
                ELSE WindowForward(m, shp, m.cout)
           [] m.kind = "BatchNorm2d" ->
                IF Len(shp) # 4 \/ shp[2] # m.cin THEN ERR ELSE shp
           [] m.kind \in {"MaxPool2d", "AvgPool2d"} ->
                IF Len(shp) # 4 THEN ERR ELSE WindowForward(m, shp, shp[2])
           [] m.kind = "Linear" ->
                IF shp[Len(shp)] # m.cin THEN ERR
                ELSE [shp EXCEPT ![Len(shp)] = m.cout]
           [] m.kind = "_DenseLayer" -> DenseLayerForward(m, shp)
           [] OTHER -> SequentialForward(Children(m), shp)

\* ------------------------------------------------------- self.modules()
RECURSIVE Modules(_, _)
RECURSIVE ModulesOfAll(_, _, _)

\* nn.Module.modules(): the module itself, then its children's, depth first;
\* path (the child positions from the root) identifies the module object
Modules(m, path) ==
    <<[kind |-> m.kind, path |-> path]>> \o ModulesOfAll(Children(m), path, 1)

ModulesOfAll(sub, path, k) ==
    IF k > Len(sub) THEN <<>>
    ELSE Modules(sub[k], Append(path, k)) \o ModulesOfAll(sub, path, k + 1)

\* the DenseNet object whose self.hidden has the given children
Self(children) ==
    [kind |-> "DenseNet", name |-> "",
     sub |-> <<[kind |-> "Sequential", name |-> "hidden", sub |-> children]>>]

\* class hierarchy used by isinstance
Bases(kind) ==
    CASE kind \in {"_DenseLayer", "_DenseBlock", "_Transition"} -> {kind, "Sequential", "Module"}
      [] OTHER -> {kind, "Module"}

IsInstance(kind, cls) == cls \in Bases(kind)

\* parameters a module owns right after its own constructor ran
DefaultParam(kind) ==
    CASE kind = "Conv2d" -> [weight |-> "default", bias |-> "none"]
      [] kind \in {"BatchNorm2d", "Linear"} -> [weight |-> "default", bias |-> "default"]
      [] OTHER -> [weight |-> "none", bias |-> "none"]

\* a slip: the linear layer's weight gets the variance-scaled fill too
InitModuleParamLinearWeight(kind, par) ==
    IF IsInstance(kind, "Conv2d") THEN [par EXCEPT !.weight = "kaiming_normal"]
    ELSE IF IsInstance(kind, "BatchNorm2d") THEN [par EXCEPT !.weight = "ones", !.bias = "zeros"]
    ELSE IF IsInstance(kind, "Linear") THEN [par EXCEPT !.weight = "kaiming_normal", !.bias = "zeros"]
    ELSE par

\* body of the loop "for m in self.modules()" in DenseNet.__init__
InitModuleParam(kind, par) ==
    IF IsInstance(kind, "Conv2d") THEN [par EXCEPT !.weight = "kaiming_normal"]
    ELSE IF IsInstance(kind, "BatchNorm2d") THEN [par EXCEPT !.weight = "ones", !.bias = "zeros"]
    ELSE IF IsInstance(kind, "Linear") THEN [par EXCEPT !.bias = "zeros"]
    ELSE par

\* ------------------------------------------------------------------ state
VARIABLES
    pc,            \* position: "stem", "blocks", "init", "ready", "forward", "done", "error"
    args,          \* arguments of DenseNet.__init__
    hidden,        \* children of self.hidden, in registration order
    num_features,  \* local num_features of __init__
    i,             \* loop index of "for i, num_layers in enumerate(block_config)"
    params,        \* weight / bias state of every module, in self.modules() order
    input,         \* the tensor given to forward: B rows of S elements
    x,             \* shape of the tensor threaded through self.hidden
    fi,            \* next child of self.hidden the forward pass applies
    trace,         \* children applied so far, each with its output shape
    out,           \* what forward returned
    err,           \* child of self.hidden that raised
    bpc,           \* dense block harness: "build", "ready", "forward", "done", "error"
    bargs,         \* arguments of _DenseBlock.__init__ and the harness input
    block,         \* the _DenseBlock under construction
    feats,         \* channel stacks: the block input, then the output of each layer
    bli            \* next layer of the block (construction, then forward)

netVars == <<pc, args, hidden, num_features, i, params,
             input, x, fi, trace, out, err>>
blockVars == <<bpc, bargs, block, feats, bli>>
vars == <<pc, args, hidden, num_features, i, params,
          input, x, fi, trace, out, err, bpc, bargs, block, feats, bli>>

NoOutput == [shape |-> <<>>, softmax |-> FALSE, applied |-> <<>>]
NoErr == [name |-> "", idx |-> 0]
NoInput == [B |-> 0, S |-> 0]

\* ----------------------------------------------------- inputs of the model
RECURSIVE SeqsUpTo(_, _)
SeqsUpTo(S, n) ==
    IF n = 0 THEN {<<>>}
    ELSE LET shorter == SeqsUpTo(S, n - 1)
         IN  shorter \cup {Append(q, e) : q \in {r \in shorter : Len(r) = n - 1}, e \in S}

\* short block configurations, built with every growth rate of the model
SmallConfigs == SeqsUpTo(0..MaxLayers, MaxBlocks)

\* the default configuration, one whose final channel count is a third of the
\* default's, and one with six blocks; built with the default growth rate
LargeConfigs == {block_config_default, <<6, 12, 48, 1, 1>>, <<1, 1, 1, 1, 1, 1>>}

GrowthRates == {growth_rate_default, 3}

XDims == {2 * 129 * 21, 129 * 21}

InputSizes == XDims \cup {3 * 2 * 129 * 21, 39 * 2 * 129 * 21, 100}

\* arguments DenseNet is constructed with
ArgsSet ==
    [x_dim : XDims, y_dim : 1..MaxLabels, growth_rate : GrowthRates,
     block_config : SmallConfigs,
     num_init_features : {num_init_features_default},
     bn_size : {bn_size_default}, drop_rate : {0}]
    \cup
    [x_dim : XDims, y_dim : 1..MaxLabels, growth_rate : {growth_rate_default},
     block_config : LargeConfigs,
     num_init_features : {num_init_features_default},
     bn_size : {bn_size_default}, drop_rate : {0}]

\* --------------------------------------------------- DenseNet.__init__
Stem(num_init_features) ==
    << View("view.i", view_i_dim),
       Conv2d("conv.i", 2, num_init_features, 3, 1),
       BatchNorm2d("norm.i", num_init_features),
       Swish("swish.i"),
       MaxPool2d("pool.i", 3, 2, 1, 1) >>

FinalLayer(nf, y_dim) ==
    << BatchNorm2d("norm.f", nf),
       Swish("swish.f"),
       AvgPool2d("pool.f", 2, 1, 0),
       View("view.f", view_f_dim),
       Linear("class.f", class_f_in, y_dim) >>

\* a slip: a transition follows every dense block
HasTransitionAlways(k, block_config) == TRUE

\* "if i != len(block_config) - 1"
HasTransition(k, block_config) == k # Len(block_config) - 1

\* a slip: the halved channel count is rounded up
TransitionFeaturesRoundUp(nf) == (nf + 1) \div 2

\* "num_features // 2"
TransitionFeatures(nf) == nf \div 2

\* "num_features + num_layers * growth_rate"
BlockFeatures(nf, num_layers, growth_rate) == nf + num_layers * growth_rate

NetInit ==
    /\ pc = "stem"
    /\ args \in ArgsSet
    /\ hidden = <<>>
    /\ num_features = 0
    /\ i = 0
    /\ params = <<>>
    /\ input = NoInput
    /\ x = <<>>
    /\ fi = 0
    /\ trace = <<>>
    /\ out = NoOutput
    /\ err = NoErr

\* "# First convolution"
BuildStem ==
    /\ pc = "stem"
    /\ hidden' = Stem(args.num_init_features)
    /\ num_features' = args.num_init_features
    /\ i' = 0
    /\ pc' = "blocks"
    /\ UNCHANGED <<args, params, input, x, fi, trace, out, err>>

\* one iteration of "# Each denseblock"
BuildBlock ==
    /\ pc = "blocks"
    /\ i < Len(args.block_config)
    /\ LET num_layers == args.block_config[i + 1]
           blk == _DenseBlock(i + 1, num_layers, num_features, args.bn_size,
                              args.growth_rate, args.drop_rate)
           nf  == BlockFeatures(num_features, num_layers, args.growth_rate)
       IN  IF HasTransition(i, args.block_config)
           THEN /\ hidden' = hidden \o <<blk, _Transition(i + 1, nf, TransitionFeatures(nf))>>
                /\ num_features' = TransitionFeatures(nf)
           ELSE /\ hidden' = Append(hidden, blk)
                /\ num_features' = nf
    /\ i' = i + 1
    /\ UNCHANGED <<pc, args, params, input, x, fi, trace, out, err>>

\* "# Final layer": the module tree is complete
BuildFinal ==
    /\ pc = "blocks"
    /\ i = Len(args.block_config)
    /\ hidden' = hidden \o FinalLayer(num_features, args.y_dim)
    /\ \E ms \in {Modules(Self(hidden'), <<>>)} :
          params' = [k \in 1..Len(ms) |-> DefaultParam(ms[k].kind)]
    /\ pc' = "init"
    /\ UNCHANGED <<args, num_features, i, input, x, fi, trace, out, err>>

\* "# Official init from torch repo.": the loop "for m in self.modules()";
\* params is indexed by the position of the module in self.modules()
InitModules ==
    /\ pc = "init"
    /\ \E ms \in {Modules(Self(hidden), <<>>)} :
          params' = [k \in 1..Len(ms) |-> InitModuleParam(ms[k].kind, params[k])]
    /\ pc' = "ready"
    /\ UNCHANGED <<args, hidden, num_features, i, input, x, fi, trace, out, err>>

\* --------------------------------------------------- DenseNet.forward
\* forward(x, softmax) is called with a tensor of B rows of S elements
ForwardCall ==
    /\ pc = "ready"
    /\ \E B \in 1..MaxBatch, S \in InputSizes :
          /\ input' = [B |-> B, S |-> S]
          /\ x' = <<B, S>>
    /\ fi' = 1
    /\ pc' = "forward"
    /\ UNCHANGED <<args, hidden, num_features, i, params, trace, out, err>>

\* self.hidden(x): the next child is applied, or its error propagates
ForwardChild ==
    /\ pc = "forward"
    /\ fi <= Len(hidden)
    /\ \E m \in {hidden[fi]} : \E y \in {Apply(m, x)} :
           IF y = ERR
           THEN /\ pc' = "error"
                /\ err' = [name |-> m.name, idx |-> Idx(m)]
                /\ UNCHANGED <<x, fi, trace>>
           ELSE /\ x' = y
                /\ trace' = Append(trace, [name |-> m.name, idx |-> Idx(m), shape |-> y])
                /\ fi' = fi + 1
                /\ UNCHANGED <<pc, err>>
    /\ UNCHANGED <<args, hidden, num_features, i, params, input, out>>

\* "if softmax: return ClippedSoftmax(self.eps, dim=1)(out) else: return out"
ForwardReturn ==
    /\ pc = "forward"
    /\ fi > Len(hidden)
    /\ \E softmax \in BOOLEAN :
          out' = [shape |-> x, softmax |-> softmax,
                  applied |-> IF softmax THEN <<"ClippedSoftmax">> ELSE <<>>]
    /\ pc' = "done"
    /\ UNCHANGED <<args, hidden, num_features, i, params,
                   input, x, fi, trace, err>>

\* ------------------------------------------- a dense block on its own
\* The harness builds one _DenseBlock and runs its forward pass on a tensor
\* whose channels are tracked one by one: a channel is a record naming the
\* layer that computed it (0: the block input), its position among that
\* layer's new features, and whether dropout zeroed it.
DropRates == {0, 50}

BlockArgsSet ==
    [num_layers : 0..MaxBlockLayers, num_input_features : 1..MaxC0,
     bn_size : {bn_size_default}, growth_rate : 1..MaxGrowth,
     drop_rate : DropRates, training : BOOLEAN]

Channels(src, n) == [k \in 1..n |-> [src |-> src, k |-> k, zero |-> FALSE]]

\* F.dropout(new_features, p=self.drop_rate, training=self.training),
\* guarded by "if self.drop_rate > 0"; mask says which channels are zeroed
Dropout(new_features, drop, training, mask) ==
    IF drop /\ training
    THEN [k \in 1..Len(new_features) |-> [new_features[k] EXCEPT !.zero = mask[k]]]
    ELSE new_features

\* a slip: the new features are put before the input, torch.cat([new_features, x], 1)
CatChannelsNewFirst(xc, new_features) == new_features \o xc

\* torch.cat([x, new_features], 1) on channel stacks
CatChannels(xc, new_features) == xc \o new_features

\* _DenseLayer.forward on a channel stack
DenseLayerChannels(layer, xc, training, mask) ==
    LET shp == SequentialForward(layer.sub, <<1, Len(xc), 2, 2>>)
    IN  IF shp = ERR THEN ERR
        ELSE CatChannels(xc, Dropout(Channels(layer.idx, shp[2]), layer.drop, training, mask))

BlockInit ==
    /\ bpc = "build"
    /\ bargs \in BlockArgsSet
    /\ block = <<>>
    /\ feats = <<>>
    /\ bli = 0

\* _DenseBlock.__init__
BlockConstruct ==
    /\ bpc = "build"
    /\ block' = _DenseBlock(1, bargs.num_layers, bargs.num_input_features,
                            bargs.bn_size, bargs.growth_rate, bargs.drop_rate)
    /\ bpc' = "ready"
    /\ UNCHANGED <<bargs, feats, bli>>

\* the block is called on a tensor of cin channels
BlockCall ==
    /\ bpc = "ready"
    /\ \E cin \in 1..MaxC0 : feats' = <<Channels(0, cin)>>
    /\ bli' = 1
    /\ bpc' = "forward"
    /\ UNCHANGED <<bargs, block>>

\* nn.Sequential.forward of the block: the next dense layer is applied
BlockForwardLayer ==
    /\ bpc = "forward"
    /\ bli <= Len(block.sub)
    /\ \E mask \in [1..bargs.growth_rate -> BOOLEAN] :
          LET y == DenseLayerChannels(block.sub[bli], feats[Len(feats)],
                                      bargs.training, mask)
          IN  IF y = ERR
              THEN /\ bpc' = "error"
                   /\ UNCHANGED <<feats, bli>>
              ELSE /\ feats' = Append(feats, y)
                   /\ bli' = bli + 1
                   /\ bpc' = "forward"
    /\ UNCHANGED <<bargs, block>>

BlockReturn ==
    /\ bpc = "forward"
    /\ bli > Len(block.sub)
    /\ bpc' = "done"
    /\ UNCHANGED <<bargs, block, feats, bli>>

NetIdle ==
    /\ pc = "idle" /\ args = <<>> /\ hidden = <<>> /\ num_features = 0 /\ i = 0
    /\ params = <<>> /\ input = NoInput
    /\ x = <<>> /\ fi = 0 /\ trace = <<>> /\ out = NoOutput /\ err = NoErr

InitBlock == BlockInit /\ NetIdle

NextBlock ==
    \/ BlockConstruct /\ UNCHANGED netVars
    \/ BlockCall /\ UNCHANGED netVars
    \/ BlockForwardLayer /\ UNCHANGED netVars
    \/ BlockReturn /\ UNCHANGED netVars

SpecBlock == InitBlock /\ [][NextBlock]_vars

BlockIdle ==
    /\ bpc = "idle" /\ bargs = <<>> /\ block = <<>> /\ feats = <<>> /\ bli = 0

Init == NetInit /\ BlockIdle

Next ==
    \/ BuildStem /\ UNCHANGED blockVars
    \/ BuildBlock /\ UNCHANGED blockVars
    \/ BuildFinal /\ UNCHANGED blockVars
    \/ InitModules /\ UNCHANGED blockVars
    \/ ForwardCall /\ UNCHANGED blockVars
    \/ ForwardChild /\ UNCHANGED blockVars
    \/ ForwardReturn /\ UNCHANGED blockVars

Spec == Init /\ [][Next]_vars

\* ================================================================ claims
Built == pc \in {"init", "ready", "forward", "done", "error"}
Called == pc \in {"forward", "done", "error"}

DefaultArgs ==
    /\ Built
    /\ args.growth_rate = growth_rate_default
    /\ args.block_config = block_config_default
    /\ args.num_init_features = num_init_features_default
    /\ args.bn_size = bn_size_default

\* elements per sample the stem reshape and the final flatten expect
T1 == KnownSize(view_i_dim)
T2 == KnownSize(view_f_dim)

\* position of a child of self.hidden, by name (0 if absent)
ChildAt(name) ==
    IF \E k \in 1..Len(hidden) : hidden[k].name = name
    THEN CHOOSE k \in 1..Len(hidden) : hidden[k].name = name
    ELSE 0

\* C1: with the other arguments at their defaults, forward on an input of
\* shape (B, x_dim) returns an output of shape (B, y_dim) for every B >= 1,
\* with or without the softmax flag.
C1_OutputShape ==
    (DefaultArgs /\ pc \in {"done", "error"} /\ input.S = args.x_dim)
        => (pc = "done" /\ out.shape = <<input.B, args.y_dim>>)

\* the stages of the default configuration, with the per-sample shape each produces
DefaultShapes ==
    << <<2, 129, 21>>, <<64, 129, 21>>, <<64, 129, 21>>, <<64, 129, 21>>, <<64, 65, 21>>,
       <<88, 65, 21>>, <<44, 33, 11>>, <<92, 33, 11>>, <<46, 17, 6>>, <<142, 17, 6>>,
       <<71, 9, 3>>, <<263, 9, 3>>, <<131, 5, 2>>, <<195, 5, 2>>,
       <<195, 5, 2>>, <<195, 5, 2>>, <<195, 4, 1>> >>

\* C2: with growth_rate 4, block_config (6,12,24,48,16) and 64 stem channels
\* the per-sample shape goes from (2,129,21) through the stages listed in
\* DefaultShapes; the channel count before classification is 195 and the
\* element count entering the final reshape is 195*4 = 780, the flatten size
\* and the width of the Linear layer.
C2_DefaultTrace ==
    (DefaultArgs /\ Called) =>
        /\ \A k \in 1..Len(trace) :
              k <= Len(DefaultShapes) => Tail(trace[k].shape) = DefaultShapes[k]
        /\ LET pf == ChildAt("pool.f")
           IN  Len(trace) >= pf =>
                 /\ trace[pf].shape[2] = 195
                 /\ Prod(Tail(trace[pf].shape)) = 780
                 /\ Prod(Tail(trace[pf].shape)) = T2
                 /\ hidden[ChildAt("class.f")].cin = Prod(Tail(trace[pf].shape))

C2_Witness ==
    /\ DefaultArgs
    /\ pc = "done"
    /\ Len(trace) = Len(DefaultShapes) + 2
    /\ trace[Len(DefaultShapes)].name = "pool.f"

\* ---------------------------------------------------------------- C5
Named(name) == [name |-> name, idx |-> 0]

StemOrder == << Named("view.i"), Named("conv.i"), Named("norm.i"),
                Named("swish.i"), Named("pool.i") >>

HeadOrder == << Named("norm.f"), Named("swish.f"), Named("pool.f"),
                Named("view.f"), Named("class.f") >>

\* dense block 1, transition 1, dense block 2, ..., transition n-1, dense block n
BodyOrder(n) ==
    [k \in 1..(2 * n - 1) |->
        IF k % 2 = 1 THEN [name |-> "denseblock", idx |-> (k + 1) \div 2]
                     ELSE [name |-> "transition", idx |-> k \div 2]]

ExpectedOrder(n) == StemOrder \o BodyOrder(n) \o HeadOrder

NameOf(m) == [name |-> m.name, idx |-> Idx(m)]

CountKind(kind) == Cardinality({k \in 1..Len(hidden) : hidden[k].kind = kind})

\* C5: for a non-empty block_config of length n the children of self.hidden
\* are the stem, then dense block 1, transition 1, ..., transition n-1, dense
\* block n, then the head: n dense blocks, n-1 transitions, each transition
\* directly between two dense blocks and none after the last block. The
\* forward pass applies them in exactly this order, and the clamped softmax
\* comes last and only if requested.
C5_StageOrder ==
    LET n == Len(args.block_config)
    IN  (Built /\ n >= 1) =>
          /\ [k \in 1..Len(hidden) |-> NameOf(hidden[k])] = ExpectedOrder(n)
          /\ CountKind("_DenseBlock") = n
          /\ CountKind("_Transition") = n - 1
          /\ \A k \in 1..Len(hidden) :
                hidden[k].kind = "_Transition" =>
                   /\ 1 < k /\ k < Len(hidden)
                   /\ hidden[k - 1].kind = "_DenseBlock"
                   /\ hidden[k + 1].kind = "_DenseBlock"
          /\ Called =>
                /\ Len(trace) <= Len(hidden)
                /\ \A k \in 1..Len(trace) :
                      [name |-> trace[k].name, idx |-> trace[k].idx] = ExpectedOrder(n)[k]
                /\ pc = "forward" => fi = Len(trace) + 1
                /\ pc = "error" => NameOf(hidden[Len(trace) + 1]) = err
          /\ pc = "done" =>
                /\ Len(trace) = Len(ExpectedOrder(n))
                /\ out.shape = trace[Len(trace)].shape
                /\ out.applied = IF out.softmax THEN <<"ClippedSoftmax">> ELSE <<>>
          /\ pc # "done" => out = NoOutput

C5_Witness ==
    /\ pc = "done"
    /\ Len(args.block_config) >= 2
    /\ out.softmax
    /\ Len(trace) = 10 + 2 * Len(args.block_config) - 1

\* ---------------------------------------------------------------- C6
MaxSide == 5

\* the result the claim gives for one spatial dimension
Halved(n) == ((n - 1) \div 2) + 1

\* C6: a transition's output has the configured number of output channels,
\* whatever its number of input channels, and each spatial dimension n >= 1
\* becomes floor((n - 1) / 2) + 1; in the network every transition is
\* configured with floor(input / 2) output channels and the dense block after
\* it is declared with exactly that many input channels. (The first conjunct
\* is about _Transition alone: it does not depend on the state and is
\* evaluated in the initial states.)
C6_Transition ==
    /\ pc = "stem" =>
          \A cin \in 1..MaxC0, cout \in 1..MaxC0, h \in 1..MaxSide, w \in 1..MaxSide :
              Apply(_Transition(1, cin, cout), <<MaxBatch, cin, h, w>>)
                  = <<MaxBatch, cout, Halved(h), Halved(w)>>
    /\ Built =>
          \A k \in 1..Len(hidden) :
              hidden[k].kind = "_Transition" =>
                 /\ hidden[k].cin = hidden[k - 1].cin
                                      + Len(hidden[k - 1].sub) * args.growth_rate
                 /\ hidden[k].cout = hidden[k].cin \div 2
                 /\ hidden[k + 1].kind = "_DenseBlock"
                 /\ hidden[k + 1].cin = hidden[k].cout
                 /\ \A l \in 1..Len(hidden[k + 1].sub) :
                       l = 1 => hidden[k + 1].sub[l].cin = hidden[k].cout
    /\ Called =>
          \A k \in 2..Len(trace) :
              hidden[k].kind = "_Transition" =>
                 /\ trace[k - 1].shape[2] = hidden[k].cin
                 /\ trace[k].shape = << trace[k - 1].shape[1], hidden[k].cout,
                                        Halved(trace[k - 1].shape[3]),
                                        Halved(trace[k - 1].shape[4]) >>

\* a transition with an odd number of input channels and an even spatial
\* size has been applied
C6_Witness ==
    /\ Called
    /\ \E k \in 2..Len(trace) :
          /\ hidden[k].kind = "_Transition"
          /\ hidden[k].cin % 2 = 1
          /\ trace[k - 1].shape[4] % 2 = 0
          /\ trace[k].shape[2] = hidden[k].cin \div 2

\* ---------------------------------------------------------------- C7
\* C7: when the next child of self.hidden is a reshape and the element count
\* of the tensor is not a multiple of the reshape's target size (2*129*21 at
\* the stem, 195*4 at the final flatten), forward fails right there: the
\* error names that child, nothing later is applied, and no output is
\* returned, now or later.
C7_ShapeError ==
    /\ [](pc = "error" => out = NoOutput)
    /\ [][(/\ pc = "forward"
           /\ fi <= Len(hidden)
           /\ hidden[fi].kind = "View"
           /\ Prod(x) % KnownSize(hidden[fi].dim) # 0)
          => (/\ pc' = "error"
              /\ err' = NameOf(hidden[fi])
              /\ out' = NoOutput
              /\ trace' = trace)]_vars
    /\ [][pc = "error" => pc' = "error"]_vars

\* the final flatten has raised
C7_Witness ==
    /\ pc = "error"
    /\ err.name = "view.f"
    /\ Prod(x) % T2 # 0
    /\ out = NoOutput

\* ---------------------------------------------------------------- C8
RECURSIVE Sum(_)
Sum(q) == IF q = <<>> THEN 0 ELSE Head(q) + Sum(Tail(q))

\* modules of the tree: DenseNet and self.hidden, five stem and five head
\* modules, per dense block the block and seven modules per layer, and five
\* modules per transition
TreeSize(block_config) ==
    LET n == Len(block_config)
    IN  2 + 5 + 5 + n + 7 * Sum(block_config) + (IF n = 0 THEN 0 ELSE 5 * (n - 1))

InitCases == {"Conv2d", "BatchNorm2d", "Linear"}

\* C8: once the constructor has run, the initialization loop has visited
\* every module of the tree exactly once; every convolution weight has the
\* variance-scaled fill, every batch normalization has weight ones and bias
\* zeros, the linear layer has bias zeros and its weight still at the
\* framework default; other modules own no parameters, and no module is
\* matched by more than one of the three cases.
C8_Initialized ==
    pc \in {"ready", "forward", "done", "error"} =>
        \A ms \in {Modules(Self(hidden), <<>>)} :
            /\ Len(ms) = TreeSize(args.block_config)
            /\ Cardinality({ms[k].path : k \in 1..Len(ms)}) = Len(ms)
            /\ Len(params) = Len(ms)
            /\ \A k \in 1..Len(ms) :
                  /\ ms[k].kind = "Conv2d" =>
                        params[k] = [weight |-> "kaiming_normal", bias |-> "none"]
                  /\ ms[k].kind = "BatchNorm2d" =>
                        params[k] = [weight |-> "ones", bias |-> "zeros"]
                  /\ ms[k].kind = "Linear" =>
                        params[k] = [weight |-> "default", bias |-> "zeros"]
                  /\ ms[k].kind \notin InitCases =>
                        params[k] = [weight |-> "none", bias |-> "none"]
                  /\ Cardinality({c \in InitCases : IsInstance(ms[k].kind, c)}) <= 1
            /\ Cardinality({k \in 1..Len(ms) : ms[k].kind = "Linear"}) = 1

C8_Witness ==
    /\ pc = "ready"
    /\ Len(args.block_config) >= 2
    /\ Len(params) = TreeSize(args.block_config)
    /\ \E k \in 1..Len(params) : params[k] = [weight |-> "kaiming_normal", bias |-> "none"]
    /\ \E k \in 1..Len(params) : params[k] = [weight |-> "ones", bias |-> "zeros"]
    /\ \E k \in 1..Len(params) : params[k] = [weight |-> "default", bias |-> "zeros"]

\* --------------------------------------------------------------- C10
\* rows after the stem reshape, and elements per row entering the final flatten
Rows1 == (input.B * input.S) \div T1
S2 == Prod(Tail(trace[ChildAt("pool.f")].shape))

\* what both readings of the claim share: a reshape raises only when the
\* element count is not a multiple of its target, and otherwise passes on
\* (rows * S) / T rows, so that forward returns Rows1 * S2 / T2 rows
C10_Reshapes ==
    Called =>
        /\ (pc = "error" /\ err.name = "view.i") => (input.B * input.S) % T1 # 0
        /\ Len(trace) >= 1 =>
              /\ (input.B * input.S) % T1 = 0
              /\ trace[1].shape = <<Rows1, 2, 129, 21>>
        /\ (pc = "error" /\ err.name = "view.f") => (Rows1 * S2) % T2 # 0
        /\ Len(trace) >= ChildAt("view.f") =>
              /\ (Rows1 * S2) % T2 = 0
              /\ trace[ChildAt("view.f")].shape = <<(Rows1 * S2) \div T2, T2>>
        /\ pc = "done" => out.shape = <<(Rows1 * S2) \div T2, args.y_dim>>

RECURSIVE GCD(_, _)
GCD(a, b) == IF b = 0 THEN a ELSE GCD(b, a % b)

\* a / b = c / d for positive integers, compared in lowest terms
SameRatio(a, b, c, d) ==
    /\ a \div GCD(a, b) = c \div GCD(c, d)
    /\ b \div GCD(a, b) = d \div GCD(c, d)

\* C10 as claimed: ... and the output has exactly B rows if and only if the
\* per-sample size equals the target at both reshapes.
C10_Original ==
    /\ C10_Reshapes
    /\ pc = "done" => (out.shape[1] = input.B <=> (input.S = T1 /\ S2 = T2))

\* C10 amended: both reshapes use a wildcard batch dimension, so a reshape
\* raises only when the element count is not a multiple of its target and
\* otherwise passes on (rows * S) / T rows; the output has exactly B rows if
\* and only if S / T1 = T2 / S2 for the per-row sizes S, S2 entering the two
\* reshapes: always when S = T at both, but also when two mismatches cancel.
C10_Amended ==
    /\ C10_Reshapes
    /\ pc = "done" =>
          /\ out.shape[1] = input.B <=> SameRatio(input.S, T1, T2, S2)
          /\ (input.S = T1 /\ S2 = T2) => out.shape[1] = input.B

\* two mismatches cancel: rows of 3 * T1 elements, a final size of T2 / 3
C10_Witness ==
    /\ pc = "done"
    /\ input.S # T1
    /\ S2 # T2
    /\ out.shape[1] = input.B

\* ---------------------------------------------------------- C3 and C4
BlockBuilt == bpc \in {"ready", "forward", "done", "error"}

\* the block is called on a tensor with the declared number of channels
DeclaredInput == Len(feats) >= 1 /\ Len(feats[1]) = bargs.num_input_features

\* C3: in a dense block of N >= 0 layers, C0 initial channels and growth rate
\* g, layer i (0-based) is declared with C0 + i*g input channels, which is
\* the channel count the layer before it produces (the block input for
\* i = 0); every layer's output has g channels more than its input, and the
\* block's output has C0 + N*g channels.
C3_BlockChannels ==
    BlockBuilt =>
        /\ Len(block.sub) = bargs.num_layers
        /\ \A k \in 1..Len(block.sub) :
              block.sub[k].cin = bargs.num_input_features + (k - 1) * bargs.growth_rate
        /\ \A k \in 2..Len(feats) :
              Len(feats[k]) = Len(feats[k - 1]) + bargs.growth_rate
        /\ DeclaredInput =>
              /\ bpc # "error"
              /\ \A k \in 1..Len(feats) :
                    k <= Len(block.sub) => Len(feats[k]) = block.sub[k].cin
              /\ bpc = "done" =>
                    /\ Len(feats) = bargs.num_layers + 1
                    /\ Len(feats[Len(feats)])
                         = bargs.num_input_features + bargs.num_layers * bargs.growth_rate

C3_Witness ==
    /\ bpc = "done"
    /\ DeclaredInput
    /\ bargs.num_layers >= 2
    /\ bargs.growth_rate >= 2
    /\ Len(feats) = bargs.num_layers + 1

\* q starts with p
IsPrefix(p, q) == Len(p) <= Len(q) /\ SubSeq(q, 1, Len(p)) = p

\* C4: a dense layer only appends: its output starts with its input
\* channels, unchanged and in the same order, with or without dropout, in
\* training or evaluation mode, and the growth_rate channels it computed
\* come after them; so every earlier channel stack of the block is a prefix
\* of every later one.
C4_AppendOnly ==
    /\ \A j \in 1..Len(feats) : \A k \in j..Len(feats) : IsPrefix(feats[j], feats[k])
    /\ \A k \in 2..Len(feats) :
          /\ Len(feats[k]) = Len(feats[k - 1]) + bargs.growth_rate
          /\ \A c \in (Len(feats[k - 1]) + 1)..Len(feats[k]) :
                /\ feats[k][c].src = k - 1
                /\ feats[k][c].k = c - Len(feats[k - 1])
    /\ \A k \in 1..Len(feats) :
          \A c \in 1..Len(feats[k]) : feats[k][c].src = 0 => ~feats[k][c].zero

\* dropout has zeroed a new channel of the first layer, and a second layer
\* has run after it
C4_Witness ==
    /\ bpc = "done"
    /\ bargs.drop_rate > 0
    /\ bargs.training
    /\ Len(feats) >= 3
    /\ \E c \in 1..Len(feats[2]) : feats[2][c].zero

====
